---- MODULE Spec2Model ----
(***************************************************************************)
(* Model of main.py: hoisting the values common to the service values.yaml *)
(* files into the parent values.yaml.                                      *)
(*                                                                         *)
(* A Python dict is an insertion-ordered sequence of <<key, value>> pairs  *)
(* with unique keys.  A value is a tagged record: Sc(n) for a scalar and   *)
(* Dt(d) for a nested dict.  A key is a non-empty sequence of atoms        *)
(* (separator-free strings): <<"a">> is the key 'a' and <<"a","b">> is the *)
(* key 'a___b', so that joining keys with the separator is concatenation   *)
(* and key.split(sep) yields the atoms.  Scalars are integers.             *)
(*                                                                         *)
(* Three specifications share the variables:                               *)
(*   SpecFn     one call of flatten_dict then unflatten_dict, or of        *)
(*              remove_keys_from_dict, on every bounded nested dict;       *)
(*   SpecMerge  one call of merge_dicts on dict objects of a heap, so that *)
(*              a write into an argument is visible;                       *)
(*   Spec       main() on a parent file and up to MaxServices service      *)
(*              files, step by step, with saves that may fail, and run     *)
(*              again on the files it has rewritten.                       *)
(* find_subdirectory_yaml_files is not modelled: its result, the list of   *)
(* service files, is an input.                                             *)
(***************************************************************************)
EXTENDS Integers, Sequences, FiniteSets, TLC

(* ---------------------------- bounds ----------------------------------- *)
MaxScalar == 2      \* scalars are the integers 1..MaxScalar
MaxItems == 2       \* entries of a top-level dict given to the pure functions
MaxServices == 2    \* service values.yaml files found below the parent
MaxFaults == 1      \* failing save_yaml_file calls in one behaviour
MaxRuns == 2        \* invocations of main() on the same directory

Atoms == <<"a", "b", "c">>      \* in string order

(* ---------------------------- values ----------------------------------- *)
Sc(n) == [tag |-> "scalar", val |-> n]
Dt(d) == [tag |-> "dict", val |-> d]
IsDict(v) == v.tag = "dict"

(* dict builtins *)
DictKeys(d) == {d[i][1] : i \in 1..Len(d)}
HasKey(d, k) == \E i \in 1..Len(d) : d[i][1] = k
Get(d, k) == d[CHOOSE i \in 1..Len(d) : d[i][1] = k][2]
Put(d, k, v) ==
    IF HasKey(d, k)
    THEN LET i == CHOOSE j \in 1..Len(d) : d[j][1] = k
         IN SubSeq(d, 1, i - 1) \o << <<k, v>> >> \o SubSeq(d, i + 1, Len(d))
    ELSE Append(d, <<k, v>>)

RECURSIVE DictFromItems(_)
DictFromItems(items) ==
    IF items = <<>> THEN <<>>
    ELSE LET n == Len(items)
         IN Put(DictFromItems(SubSeq(items, 1, n - 1)), items[n][1], items[n][2])

(* Python == on values: dicts compare without regard to order *)
RECURSIVE PyEq(_, _)
PyEq(v, w) ==
    IF IsDict(v) /\ IsDict(w)
    THEN /\ DictKeys(v.val) = DictKeys(w.val)
         /\ \A k \in DictKeys(v.val) : PyEq(Get(v.val, k), Get(w.val, k))
    ELSE v = w

DictEq(d, e) == PyEq(Dt(d), Dt(e))

(* ---------------------------- flatten_dict ----------------------------- *)
RECURSIVE flatten_items(_, _)
flatten_items(d, parent_key) ==
    IF d = <<>> THEN <<>>
    ELSE LET k == d[1][1]
             v == d[1][2]
             new_key == IF parent_key # <<>> THEN parent_key \o k ELSE k
             here == IF IsDict(v)
                     THEN DictFromItems(flatten_items(v.val, new_key))
                     ELSE << <<new_key, v>> >>
         IN here \o flatten_items(Tail(d), parent_key)

flatten_dict(d) == DictFromItems(flatten_items(d, <<>>))

(* ---------------------------- unflatten_dict --------------------------- *)
RECURSIVE set_path(_, _, _)
set_path(current, parts, value) ==
    IF Len(parts) = 1
    THEN LET final_key == parts
         IN IF HasKey(current, final_key) /\ IsDict(Get(current, final_key))
               /\ ~IsDict(value)
            THEN current
            ELSE Put(current, final_key, value)
    ELSE LET part == <<parts[1]>>
             child == IF ~HasKey(current, part) THEN <<>>
                      ELSE IF ~IsDict(Get(current, part)) THEN <<>>
                      ELSE Get(current, part).val
         IN Put(current, part, Dt(set_path(child, Tail(parts), value)))

RECURSIVE unflatten_from(_, _)
unflatten_from(result, d) ==
    IF d = <<>> THEN result
    ELSE unflatten_from(set_path(result, d[1][1], d[1][2]), Tail(d))

unflatten_dict(d) == unflatten_from(<<>>, d)

(* ---------------------------- remove_keys_from_dict -------------------- *)
remove_keys_from_dict(d, keys_to_remove) ==
    LET flat_dict == flatten_dict(d)
        kept == SelectSeq(flat_dict, LAMBDA p : p[1] \notin keys_to_remove)
    IN unflatten_dict(kept)

(* ---------------------------- merge_dicts ------------------------------ *)
(* merge_dicts works on dict objects: the heap is a sequence of objects,   *)
(* an address is an index into it, and an object is a dict whose values    *)
(* are scalars or references to other objects.                             *)
Ref(at) == [tag |-> "ref", val |-> at]
IsRef(v) == v.tag = "ref"

RECURSIVE Store(_, _)
Store(h, d) ==
    IF d = <<>> THEN [h |-> Append(h, <<>>), at |-> Len(h) + 1]
    ELSE LET rest == Store(h, SubSeq(d, 1, Len(d) - 1))
             last == d[Len(d)]
         IN IF IsDict(last[2])
            THEN LET c == Store(rest.h, last[2].val)
                 IN [h |-> [c.h EXCEPT ![rest.at] = Append(@, <<last[1], Ref(c.at)>>)],
                     at |-> rest.at]
            ELSE [h |-> [rest.h EXCEPT ![rest.at] = Append(@, last)], at |-> rest.at]

RECURSIVE Deref(_, _)
RECURSIVE DerefItems(_, _)
DerefItems(h, items) ==
    IF items = <<>> THEN <<>>
    ELSE LET n == Len(items)
             v == items[n][2]
         IN Append(DerefItems(h, SubSeq(items, 1, n - 1)),
                   <<items[n][1], IF IsRef(v) THEN Dt(Deref(h, v.val)) ELSE v>>)
Deref(h, at) == DerefItems(h, h[at])

\* result = dict1 without the copy: the merge then writes into dict1 itself
copy_alias(h, dict1) == [h |-> h, at |-> dict1]

\* result = dict1.copy()
dict_copy(h, dict1) == [h |-> Append(h, h[dict1]), at |-> Len(h) + 1]

RECURSIVE merge_dicts(_, _, _)
RECURSIVE merge_loop(_, _, _, _)
merge_loop(h, result, dict2, i) ==
    IF i > Len(h[dict2]) THEN [h |-> h, at |-> result]
    ELSE LET key == h[dict2][i][1]
             value == h[dict2][i][2]
         IN IF HasKey(h[result], key) /\ IsRef(Get(h[result], key)) /\ IsRef(value)
            THEN LET sub == merge_dicts(h, Get(h[result], key).val, value.val)
                 IN merge_loop([sub.h EXCEPT ![result] = Put(@, key, Ref(sub.at))],
                               result, dict2, i + 1)
            ELSE merge_loop([h EXCEPT ![result] = Put(@, key, value)],
                            result, dict2, i + 1)

merge_dicts(h, dict1, dict2) ==
    LET c == dict_copy(h, dict1)
    IN merge_loop(c.h, c.at, dict2, 1)

\* merge_dicts as main() uses it, on two freshly loaded documents
merged(parent_data, common) ==
    LET s1 == Store(<<>>, parent_data)
        s2 == Store(s1.h, common)
        m == merge_dicts(s2.h, s1.at, s2.at)
    IN Deref(m.h, m.at)

(* ---------------------------- paths of a tree -------------------------- *)
RECURSIVE NodePaths(_, _)
NodePaths(d, prefix) ==
    UNION {{prefix \o d[i][1]} \cup
           (IF IsDict(d[i][2]) THEN NodePaths(d[i][2].val, prefix \o d[i][1]) ELSE {})
           : i \in 1..Len(d)}

RECURSIVE ValueAt(_, _)
ValueAt(d, path) ==
    IF Len(path) = 1 THEN Get(d, path)
    ELSE ValueAt(Get(d, <<path[1]>>).val, Tail(path))

RECURSIVE PlainKeys(_)
PlainKeys(d) ==
    \A i \in 1..Len(d) :
        /\ Len(d[i][1]) = 1
        /\ IsDict(d[i][2]) => PlainKeys(d[i][2].val)

IsPrefix(p, q) == Len(p) <= Len(q) /\ SubSeq(q, 1, Len(p)) = p

(* ---------------------------- input domains ---------------------------- *)
Scalars == {Sc(n) : n \in 1..MaxScalar}

FnKeys == {<<"a">>, <<"b">>, <<"a", "b">>}

\* dicts with at most n entries, keys from ks, values from vs, in any order
RECURSIVE DictsOver(_, _, _)
DictsOver(ks, vs, n) ==
    IF n = 0 THEN {<<>>}
    ELSE LET smaller == DictsOver(ks, vs, n - 1)
         IN smaller \cup
            UNION {{Append(d, <<k, v>>) : k \in ks \ DictKeys(d), v \in vs} :
                   d \in {e \in smaller : Len(e) = n - 1}}

\* arguments of the pure functions: nested dicts of depth two, with the key
\* 'a___b' among the keys and the empty dict among the values
InnerDicts == DictsOver(FnKeys, Scalars, 1)
FnValues == Scalars \cup {Dt(d) : d \in InnerDicts}
FnDicts == DictsOver(FnKeys, FnValues, MaxItems)
FnPaths == {<<"a">>, <<"b">>, <<"a", "b">>, <<"b", "a">>}
FnKeySets == {ks \in SUBSET FnPaths : Cardinality(ks) <= 2}

VARIABLES
    \* one call of a pure function
    fn_pc, fn_d, fn_keys, fn_flat, fn_out,
    \* one call of merge_dicts on the heap
    m_pc, heap, dict1, dict2, result, base_before,
    \* main(): the files, the arguments and the locals
    pc, root_ok, dry_run, parent_file, service_files, common_values, idx,
    \* bookkeeping: failed saves so far, save_yaml_file calls of this run,
    \* number of the run, the files before the first run and the files as
    \* the first run left them
    faults, saves, run, first_files, after_first

fnVars == <<fn_pc, fn_d, fn_keys, fn_flat, fn_out>>
mVars == <<m_pc, heap, dict1, dict2, result, base_before>>
runVars == <<pc, root_ok, dry_run, parent_file, service_files, common_values,
             idx, faults, saves, run, first_files, after_first>>
vars == <<fnVars, mVars, runVars>>

FnIdle ==
    /\ fn_pc = "idle" /\ fn_d = <<>> /\ fn_keys = {} /\ fn_flat = <<>> /\ fn_out = <<>>
MergeIdle ==
    /\ m_pc = "idle" /\ heap = <<>> /\ dict1 = 0 /\ dict2 = 0 /\ result = 0
    /\ base_before = <<>>
RunIdle ==
    /\ pc = "idle" /\ root_ok = FALSE /\ dry_run = FALSE
    /\ parent_file = Dt(<<>>) /\ service_files = <<>> /\ common_values = <<>>
    /\ idx = 0 /\ faults = 0 /\ saves = 0 /\ run = 0
    /\ first_files = <<>> /\ after_first = <<>>

(* ---------------------------- the pure functions ----------------------- *)
InitFn ==
    /\ fn_pc = "args"
    /\ fn_d \in FnDicts
    /\ fn_keys \in FnKeySets
    /\ fn_flat = <<>>
    /\ fn_out = <<>>
    /\ MergeIdle /\ RunIdle

CallFlatten ==
    /\ fn_pc = "args"
    /\ fn_flat' = flatten_dict(fn_d)
    /\ fn_pc' = "flattened"
    /\ UNCHANGED <<fn_d, fn_keys, fn_out, mVars, runVars>>

CallUnflatten ==
    /\ fn_pc = "flattened"
    /\ fn_out' = unflatten_dict(fn_flat)
    /\ fn_pc' = "unflattened"
    /\ UNCHANGED <<fn_d, fn_keys, fn_flat, mVars, runVars>>

CallRemoveKeys ==
    /\ fn_pc = "args"
    /\ fn_out' = remove_keys_from_dict(fn_d, fn_keys)
    /\ fn_pc' = "removed"
    /\ UNCHANGED <<fn_d, fn_keys, fn_flat, mVars, runVars>>

NextFn == CallFlatten \/ CallUnflatten \/ CallRemoveKeys

SpecFn == InitFn /\ [][NextFn]_vars

\* a path that is a dict at one place of the tree and a scalar at another
RECURSIVE NodeKinds(_, _)
NodeKinds(d, prefix) ==
    UNION {{<<prefix \o d[i][1], d[i][2].tag>>} \cup
           (IF IsDict(d[i][2]) THEN NodeKinds(d[i][2].val, prefix \o d[i][1]) ELSE {})
           : i \in 1..Len(d)}

TypeCollision(d) ==
    \E x, y \in NodeKinds(d, <<>>) : x[1] = y[1] /\ x[2] # y[2]

\* C6: unflatten_dict(flatten_dict(t)) equals t for every tree t without a
\* dict/scalar collision at any path, trees holding an empty dict included.
RoundTrip ==
    (fn_pc = "unflattened" /\ PlainKeys(fn_d) /\ ~TypeCollision(fn_d))
        => DictEq(fn_out, fn_d)

\* C4: after remove_keys_from_dict no key of the result has a cumulative
\* path that is in the path set, whether it held a scalar or a dict.
PruneRemovesSubtree ==
    (fn_pc = "removed" /\ PlainKeys(fn_d))
        => \A p \in fn_keys : p \notin NodePaths(fn_out, <<>>)

\* C5: every key whose path is not in the set, is not below a path of the
\* set and is not an ancestor of one keeps its value in the result of
\* remove_keys_from_dict, keys holding an empty dict included.
Untouched(p) ==
    \A q \in fn_keys : ~IsPrefix(q, p) /\ ~IsPrefix(p, q)

PrunePreservesRest ==
    (fn_pc = "removed" /\ PlainKeys(fn_d))
        => \A p \in NodePaths(fn_d, <<>>) :
              Untouched(p) =>
                 /\ p \in NodePaths(fn_out, <<>>)
                 /\ PyEq(ValueAt(fn_out, p), ValueAt(fn_d, p))

(* ---------------------------- one call of merge_dicts ------------------ *)
PlainAtoms == {<<"a">>, <<"b">>}
MergeInner == DictsOver(PlainAtoms, Scalars, 1)
MergeValues == Scalars \cup {Dt(d) : d \in MergeInner}
MergeArgs == DictsOver(PlainAtoms, MergeValues, MaxItems)

InitMerge ==
    /\ m_pc = "args"
    /\ \E base \in MergeArgs, overlay \in MergeArgs :
          LET s1 == Store(<<>>, base)
              s2 == Store(s1.h, overlay)
          IN /\ heap = s2.h
             /\ dict1 = s1.at
             /\ dict2 = s2.at
             /\ base_before = base
    /\ result = 0
    /\ FnIdle /\ RunIdle

CallMerge ==
    /\ m_pc = "args"
    /\ LET m == merge_dicts(heap, dict1, dict2)
       IN /\ heap' = m.h
          /\ result' = m.at
    /\ m_pc' = "returned"
    /\ UNCHANGED <<dict1, dict2, base_before, fnVars, runVars>>

NextMerge == CallMerge

SpecMerge == InitMerge /\ [][NextMerge]_vars

\* C7: after merge_dicts(base, overlay) returns, the base argument holds
\* the keys and values it held before the call, at every nesting depth.
MergeKeepsBase ==
    m_pc = "returned" => Deref(heap, dict1) = base_before

\* a call that merged two nested dicts under a common key into a result
\* that differs from the base
MergeKeepsBaseWitness ==
    /\ m_pc = "returned"
    /\ \E k \in DictKeys(base_before) :
          /\ IsDict(Get(base_before, k))
          /\ HasKey(heap[dict2], k)
          /\ IsRef(Get(heap[dict2], k))
          /\ ~PyEq(Get(Deref(heap, result), k), Get(base_before, k))

(* ---------------------------- files ------------------------------------ *)
(* A file is the value its YAML text denotes, or Blank (an empty,          *)
(* unreadable or unparseable file), or Absent.                             *)
Blank == [tag |-> "blank", val |-> 0]
Absent == [tag |-> "absent", val |-> 0]

Truthy(v) == IF IsDict(v) THEN v.val # <<>> ELSE v.val # 0

load_yaml_file(f) ==
    IF f.tag \in {"blank", "absent"} THEN Dt(<<>>)
    ELSE IF Truthy(f) THEN f ELSE Dt(<<>>)

\* yaml.dump(..., sort_keys=True): keys in string order at every level
AtomIndex(x) == CHOOSE i \in 1..Len(Atoms) : Atoms[i] = x

RECURSIVE KeyLess(_, _)
KeyLess(k1, k2) ==
    IF k1 = <<>> THEN k2 # <<>>
    ELSE IF k2 = <<>> THEN FALSE
    ELSE IF k1[1] = k2[1] THEN KeyLess(Tail(k1), Tail(k2))
    ELSE AtomIndex(k1[1]) < AtomIndex(k2[1])

RECURSIVE yaml_dump(_)
yaml_dump(data) ==
    IF data = <<>> THEN <<>>
    ELSE LET m == CHOOSE i \in 1..Len(data) :
                     \A j \in 1..Len(data) : j # i => KeyLess(data[i][1], data[j][1])
             v == data[m][2]
             rest == SubSeq(data, 1, m - 1) \o SubSeq(data, m + 1, Len(data))
         IN << <<data[m][1], IF IsDict(v) THEN Dt(yaml_dump(v.val)) ELSE v>> >>
            \o yaml_dump(rest)

\* the file after save_yaml_file(file_path, data): written, left alone when
\* open() fails, or left empty when the dump fails after open() truncated it
save_yaml_file(f, data, outcome) ==
    CASE outcome = "ok" -> Dt(yaml_dump(data))
      [] outcome = "denied" -> f
      [] outcome = "truncated" -> Blank

(* ---------------------------- find_common_values ----------------------- *)
RECURSIVE all_data_of(_)
all_data_of(yaml_files) ==
    IF yaml_files = <<>> THEN <<>>
    ELSE LET data == load_yaml_file(yaml_files[1])
         IN (IF Truthy(data) THEN <<flatten_dict(data.val)>> ELSE <<>>)
            \o all_data_of(Tail(yaml_files))

\* a loaded document that is not a dict makes flatten_dict raise
flatten_raises(yaml_files) ==
    \E i \in 1..Len(yaml_files) :
        LET data == load_yaml_file(yaml_files[i])
        IN Truthy(data) /\ ~IsDict(data)

others_of(all_data) == SubSeq(all_data, 2, Len(all_data))

common_items_of(all_data) ==
    LET first_data == all_data[1]
        others == others_of(all_data)
    IN SelectSeq(first_data,
                 LAMBDA p : \A j \in 1..Len(others) :
                               /\ HasKey(others[j], p[1])
                               /\ PyEq(Get(others[j], p[1]), p[2]))

find_common_values(yaml_files) ==
    IF yaml_files = <<>> THEN <<>>
    ELSE LET all_data == all_data_of(yaml_files)
         IN IF all_data = <<>> THEN <<>>
            ELSE unflatten_dict(common_items_of(all_data))

(* ---------------------------- main() ----------------------------------- *)
RECURSIVE SeqsUpTo(_, _)
SeqsUpTo(S, n) ==
    IF n = 0 THEN {<<>>}
    ELSE LET shorter == SeqsUpTo(S, n - 1)
         IN shorter \cup
            {Append(q, x) : q \in {r \in shorter : Len(r) = n - 1}, x \in S}

Nested(k, n) == Dt(<< <<k, Sc(n)>> >>)

RunValues == Scalars \cup {Dt(<<>>), Nested(<<"c">>, 1)}
\* service documents: 'a' holds any value; 'b', when present, holds 1
RunDocs ==
    {d \in DictsOver(PlainAtoms, RunValues, 2) :
        /\ d = yaml_dump(d)
        /\ HasKey(d, <<"b">>) => Get(d, <<"b">>) = Sc(1)}
ServiceFiles == {Blank, Sc(1)} \cup {Dt(d) : d \in RunDocs}
ParentDocs ==
    DictsOver({<<"a">>}, Scalars \cup {Nested(<<"c">>, 2), Nested(<<"b">>, 1)}, 1)
        \cup {<< <<<<"b">>, Sc(1)>>, <<<<"a">>, Nested(<<"b">>, 1)>> >>}
ParentFiles == {Absent, Blank, Sc(1)} \cup {Dt(d) : d \in ParentDocs}

NoRun == [parent |-> Absent, services |-> <<>>, clean |-> FALSE]

Init ==
    /\ pc = "start"
    /\ root_ok \in BOOLEAN
    /\ dry_run \in BOOLEAN
    /\ parent_file \in ParentFiles
    /\ service_files \in SeqsUpTo(ServiceFiles, MaxServices)
    /\ first_files = [parent |-> parent_file, services |-> service_files]
    /\ common_values = <<>>
    /\ idx = 0 /\ faults = 0 /\ saves = 0 /\ run = 1
    /\ after_first = NoRun
    /\ FnIdle /\ MergeIdle

\* lines 205-212
CheckDirectory ==
    /\ pc = "start"
    /\ pc' = IF root_ok THEN "dir_ok" ELSE "exit1"
    /\ UNCHANGED <<root_ok, dry_run, parent_file, service_files, common_values,
                   idx, faults, saves, run, first_files, after_first, fnVars, mVars>>

\* the existence check of lines 219-221 left out
parent_yaml_never_missing(f) == FALSE

\* lines 215-223
parent_yaml_missing(f) == f = Absent

CheckParentFile ==
    /\ pc = "dir_ok"
    /\ pc' = IF parent_yaml_missing(parent_file) THEN "exit1" ELSE "parent_ok"
    /\ UNCHANGED <<root_ok, dry_run, parent_file, service_files, common_values,
                   idx, faults, saves, run, first_files, after_first, fnVars, mVars>>

\* lines 225-237
FindFiles ==
    /\ pc = "parent_ok"
    /\ pc' = IF service_files = <<>> THEN "returned" ELSE "found"
    /\ UNCHANGED <<root_ok, dry_run, parent_file, service_files, common_values,
                   idx, faults, saves, run, first_files, after_first, fnVars, mVars>>

\* lines 239-252
no_common(common) == common = <<>>

FindCommon ==
    /\ pc = "found"
    /\ IF flatten_raises(service_files)
       THEN /\ pc' = "crash"
            /\ UNCHANGED common_values
       ELSE /\ common_values' = find_common_values(service_files)
            /\ pc' = IF no_common(common_values') THEN "returned"
                     ELSE IF dry_run THEN "returned"
                     ELSE "merge"
    /\ UNCHANGED <<root_ok, dry_run, parent_file, service_files,
                   idx, faults, saves, run, first_files, after_first, fnVars, mVars>>

Outcomes == {"ok"} \cup (IF faults < MaxFaults THEN {"denied", "truncated"} ELSE {})

\* lines 254-264
MergeParent ==
    /\ pc = "merge"
    /\ LET parent_data == load_yaml_file(parent_file)
       IN IF ~IsDict(parent_data)
          THEN /\ pc' = "crash"
               /\ UNCHANGED <<parent_file, idx, faults, saves>>
          ELSE \E outcome \in Outcomes :
                 LET updated_parent_data == merged(parent_data.val, common_values)
                 IN /\ parent_file' = save_yaml_file(parent_file, updated_parent_data, outcome)
                    /\ faults' = IF outcome = "ok" THEN faults ELSE faults + 1
                    /\ saves' = saves + 1
                    /\ idx' = 1
                    /\ pc' = "prune"
    /\ UNCHANGED <<root_ok, dry_run, service_files, common_values,
                   run, first_files, after_first, fnVars, mVars>>

common_keys == DictKeys(flatten_dict(common_values))

\* lines 266-269, one iteration
PruneService ==
    /\ pc = "prune"
    /\ idx <= Len(service_files)
    /\ LET data == load_yaml_file(service_files[idx])
       IN IF ~IsDict(data)
          THEN /\ pc' = "crash"
               /\ UNCHANGED <<service_files, idx, faults, saves>>
          ELSE \E outcome \in Outcomes :
                 LET updated_data == remove_keys_from_dict(data.val, common_keys)
                 IN /\ service_files' =
                          [service_files EXCEPT
                             ![idx] = save_yaml_file(@, updated_data, outcome)]
                    /\ faults' = IF outcome = "ok" THEN faults ELSE faults + 1
                    /\ saves' = saves + 1
                    /\ idx' = idx + 1
                    /\ pc' = "prune"
    /\ UNCHANGED <<root_ok, dry_run, parent_file, common_values,
                   run, first_files, after_first, fnVars, mVars>>

\* lines 271-272
Finish ==
    /\ pc = "prune"
    /\ idx > Len(service_files)
    /\ pc' = "done"
    /\ UNCHANGED <<root_ok, dry_run, parent_file, service_files, common_values,
                   idx, faults, saves, run, first_files, after_first, fnVars, mVars>>

\* the program is started again, with the same arguments, on the directory
\* a completed run has rewritten
Rerun ==
    /\ pc = "done"
    /\ run < MaxRuns
    /\ after_first' = IF run = 1
                      THEN [parent |-> parent_file, services |-> service_files,
                            clean |-> faults = 0]
                      ELSE after_first
    /\ run' = run + 1
    /\ pc' = "start"
    /\ common_values' = <<>>
    /\ idx' = 0
    /\ saves' = 0
    /\ UNCHANGED <<root_ok, dry_run, parent_file, service_files, faults,
                   first_files, fnVars, mVars>>

Next ==
    \/ CheckDirectory \/ CheckParentFile \/ FindFiles \/ FindCommon
    \/ MergeParent \/ PruneService \/ Finish \/ Rerun

Spec == Init /\ [][Next]_vars

Ended == pc \in {"done", "returned", "exit1", "crash"}

(* ---------------------------- what a document holds -------------------- *)
RECURSIVE LeafPairs(_, _)
LeafPairs(d, prefix) ==
    UNION {IF IsDict(d[i][2])
           THEN LeafPairs(d[i][2].val, prefix \o d[i][1])
           ELSE {<<prefix \o d[i][1], d[i][2]>>}
           : i \in 1..Len(d)}

\* the pairs a file holds on disk; a file that loads as {} holds none
FilePairs(f) == IF IsDict(f) THEN LeafPairs(f.val, <<>>) ELSE {}

\* the pairs that every service document holds
SharedPairs(files) ==
    IF files = <<>> THEN {}
    ELSE {pr \in FilePairs(files[1]) :
            \A i \in 1..Len(files) : pr \in FilePairs(files[i])}

AllMappings(files) == \A i \in 1..Len(files) : files[i] = Blank \/ IsDict(files[i])

\* find_common_values has returned in the first run
Computed ==
    /\ run = 1
    /\ \/ pc \in {"merge", "prune", "done"}
       \/ pc = "returned" /\ service_files # <<>>

\* C2: the CommonSet holds exactly the pairs that every service document
\* holds, a document that loads as an empty Mapping counting as one that
\* holds nothing.
CommonIsIntersection ==
    Computed => LeafPairs(common_values, <<>>) = SharedPairs(first_files.services)

\* C3: with fewer than two service documents the CommonSet is empty.
SingleDocumentSharesNothing ==
    (Computed /\ Len(first_files.services) < 2) => common_values = <<>>

\* C8: a run whose service documents share no pair ends normally and never
\* calls save_yaml_file.
NothingSharedNoWrite ==
    (/\ run = 1 /\ root_ok /\ first_files.parent # Absent
     /\ AllMappings(<<first_files.parent>>)
     /\ AllMappings(first_files.services)
     /\ SharedPairs(first_files.services) = {})
        => /\ saves = 0
           /\ Ended => pc = "returned"

\* C10: when a non-dry run has ended, every pair a service document held
\* before the run is held by that document or by the shared document,
\* whichever saves failed.  (Stated for two or more service documents that
\* all hold something, where the CommonSet is the intersection.)
SeveralNonEmpty(files) ==
    /\ Len(files) >= 2
    /\ \A i \in 1..Len(files) : IsDict(files[i]) /\ files[i].val # <<>>

NoValueLost ==
    (run = 1 /\ Ended /\ ~dry_run /\ SeveralNonEmpty(first_files.services))
        => \A i \in 1..Len(service_files) :
              FilePairs(first_files.services[i])
                 \subseteq FilePairs(service_files[i]) \cup FilePairs(parent_file)

\* C1: after a complete first run whose writes all succeeded, a second run
\* computes an empty CommonSet and leaves every file as the first run left it.
SecondRunChangesNothing ==
    (run = 2 /\ after_first.clean /\ faults = 0 /\ Ended)
        => /\ common_values = <<>>
           /\ parent_file = after_first.parent
           /\ service_files = after_first.services

====
